---- MODULE Spec2Model ----
(***************************************************************************)
(* Orchestration core of the agent demos:                                  *)
(*   - content_pipeline.py   : two-stage gated pipeline (run_pipeline)     *)
(*   - eval_optimize_agent.py: generate/evaluate feedback loop (main)      *)
(*   - task_breakdown.py     : orchestrator with sequential workers        *)
(*   - orchestrator_agent.py : orchestrator with asyncio.gather workers    *)
(* The Model Gateway (claude_agent_sdk.query) is the environment: every    *)
(* query is a stream of messages that the environment chooses, ends, or    *)
(* aborts with an exception.                                               *)
(***************************************************************************)
EXTENDS Integers, Sequences, FiniteSets, TLC

VARIABLES
    prog,            \* which script is running
    \* ---- content_pipeline.py
    pc_p,            \* position of run_pipeline
    content_id,      \* argument of run_pipeline
    st,              \* locals of the running run_stage_safe call
    step1_result,    \* Some(ExtractResult) once stage 1 returned a value
    step2_result,    \* Some(GateResult) once the extraction gate ran
    step3_result,    \* Some(SummarizeResult) once stage 2 returned a value
    step4_result,    \* Some(GateResult) once the summary gate ran
    error,           \* run_pipeline's error: the error of the last stage outcome
    pipeline_result, \* Some(dict) once run_pipeline returned
    calls,           \* call counters of the pipeline's functions
    stream_log,      \* what the stream of the latest stage query has yielded
    \* ---- eval_optimize_agent.py
    pc_l,            \* position of main
    memory,          \* main's list of generated results
    chain_of_thought,\* main's list of {thoughts, result}
    context,         \* main's context string, as a sequence of lines
    eval,            \* main's eval
    result,          \* main's result
    lq,              \* locals of the running generate or evaluate call
    loop_out,        \* Some(value main returned) or Some(exception it raised)
    gen_contexts,    \* the context argument of every generate call so far
    eval_log,        \* the EvalModel of every evaluate call that returned
    \* ---- task_breakdown.py
    pc_t,            \* position of run_orchestrator
    plan,            \* Some(WorkStreamPlan) once identify_work_streams returned one
    tq,              \* locals of the running query (planner, worker or synthesis)
    widx,            \* index of the work stream run_all_workers is at
    wstate,          \* per work stream: pending, running, done, empty or raised
    results,         \* run_all_workers' results dict, in insertion order
    synth_input,     \* Some(worker_results given to synthesize_plan)
    tb_out,          \* Some(dict run_orchestrator returned) or Some(exception)
    tb_calls,        \* the calls made so far: planning, run_worker per item, synthesis
    \* ---- orchestrator_agent.py
    pc_o,            \* position of process
    tasks,           \* orchestrator_response.tasks
    oq,              \* locals of the planning query of process
    workers,         \* per task: the process_worker coroutine's state and locals
    completion,      \* indices of the workers in the order they ended
    oa_out,          \* Some(dict process returned) or Some(exception)
    \* ---- hello_world.py
    pc_h,            \* "start", or "done" once the PreToolUse hooks have run
    tool_name,       \* input_data['tool_name'] of the tool call
    file_path,       \* tool_input['file_path'] ('' when absent)
    hook_out,        \* Some(dict validate_script_writes returned)
    \* ---- resume_generator.py
    pc_r,            \* "start", or "done" once evaluate_resume_quality returned
    resume,          \* the resume decoded from args["resume_json"]
    report           \* Some(the evaluation evaluate_resume_quality returned)

pvars == <<pc_p, content_id, st, step1_result, step2_result,
           step3_result, step4_result, error, pipeline_result, calls,
           stream_log>>
lvars == <<pc_l, memory, chain_of_thought, context, eval, result, lq, loop_out,
           gen_contexts, eval_log>>
tvars == <<pc_t, plan, tq, widx, wstate, results, synth_input, tb_out,
           tb_calls>>
ovars == <<pc_o, tasks, oq, workers, completion, oa_out>>
hvars == <<pc_h, tool_name, file_path, hook_out>>
rvars == <<pc_r, resume, report>>
vars == <<prog, pvars, lvars, tvars, ovars, hvars, rvars>>

----------------------------------------------------------------------------
\* Bounds of the model.

\* parts a file path is made of
MaxPathLen == 4
\* jobs in the experience section of a resume
MaxJobs == 2
\* messages one Model Gateway stream yields before it ends
MaxMsgs == 2
\* generate calls of one feedback loop run (the code has no bound of its own)
MaxAttempts == 4
\* work items one plan holds
MaxPlanLen == 2

----------------------------------------------------------------------------
\* Optional values: Python's None and a present value.

None == <<>>
Some(v) == <<v>>
Get(o) == o[1]

\* all sequences over S of length at most n
SeqUpTo(S, n) == UNION {[1..k -> S] : k \in 0..n}

----------------------------------------------------------------------------
\* The Model Gateway's messages.

\* ResultMessage.subtype values
Subtypes == {"success", "error_max_structured_output_retries", "error_during_execution"}

\* structured_output that does not satisfy the requested schema
\* (schema_class.model_validate raises on it)
Invalid == [invalid |-> TRUE]

\* A message of a query() stream: a ResultMessage or any other message.
\* structured_output is None, Some(value) or Some(Invalid); result is the
\* ResultMessage.result text (None, "" or a text).
Message(outputs, texts) ==
    [kind : {"other"}, structured_output : {None}, subtype : {"success"}, result : {None}]
    \cup [kind : {"result"},
          structured_output : {None, Some(Invalid)} \cup {Some(v) : v \in outputs},
          subtype : Subtypes,
          result : {None}]
    \cup [kind : {"result"},
          structured_output : {None},
          subtype : {"success"},
          result : {Some(t) : t \in texts}]

----------------------------------------------------------------------------
\* content_pipeline.py: data the gates see.

\* Characters: "a" is a letter, " " is whitespace, "1" is neither.
IsLetter(c) == c = "a"
IsSpace(c) == c = " "

\* extracted_content values the gateway may return
ContentSamples ==
    { <<>>, <<" ", " ">>, <<"a", "1">>, <<" ", "a", " ">>,
      <<"<", "a", ">">>, <<"a", "<", "a", "1", ">", "a">>,
      <<"<", "1", ">">>, <<"<", "a", "1">>, <<"<", " ", "a", ">">> }

\* extracted_length values the gateway may report
LengthSamples == {50, 99, 100, 101}

\* s repeated: n copies of character c
Rep(c, n) == [i \in 1..n |-> c]

\* summary values the gateway may return
SummarySamples ==
    { Rep("a", 51), Rep("a", 50), Rep(" ", 2) \o Rep("a", 50) \o Rep(" ", 1),
      Rep(" ", 1) \o Rep("a", 51), Rep(" ", 52) }

ExtractResult ==
    [extracted_content : ContentSamples, original_length : {200},
     extracted_length : LengthSamples, title : {"Title"}]

SummarizeResult ==
    [summary : SummarySamples, key_points : {Rep("point", n) : n \in {2, 3}},
     original_length : {-5, 0, 100}, summary_length : {39, 40, 41}]

\* re.search(r'<[a-zA-Z][^>]*>', s): a "<", a letter, then a ">" later on
HasHtmlTag(s) ==
    \E i \in 1..Len(s) :
        /\ s[i] = "<"
        /\ i + 1 <= Len(s)
        /\ IsLetter(s[i + 1])
        /\ \E k \in (i + 2)..Len(s) : s[k] = ">"

\* str.strip(): s without its leading and trailing whitespace
Strip(s) ==
    LET keep == {i \in 1..Len(s) : ~IsSpace(s[i])}
    IN  IF keep = {} THEN <<>>
        ELSE LET lo == CHOOSE i \in keep : \A j \in keep : i <= j
                 hi == CHOOSE i \in keep : \A j \in keep : j <= i
             IN  SubSeq(s, lo, hi)

\* faulty variant: the failing checks are listed last one first
FailedChecks_Reversed(checks) ==
    LET F[i \in 0..Len(checks)] ==
            IF i = 0 THEN <<>>
            ELSE IF checks[i][2] THEN F[i - 1] ELSE <<checks[i][1]>> \o F[i - 1]
    IN  F[Len(checks)]

\* [k for k, v in checks.items() if not v]: checks is a sequence of
\* <<name, value>> pairs in insertion order
FailedChecks(checks) ==
    LET F[i \in 0..Len(checks)] ==
            IF i = 0 THEN <<>>
            ELSE IF checks[i][2] THEN F[i - 1] ELSE Append(F[i - 1], checks[i][1])
    IN  F[Len(checks)]

\* minimum extracted_length (exclusive)
MinLength == 100
\* minimum number of key points
MinKeyPoints == 3
\* minimum stripped summary length (exclusive)
MinSummaryChars == 50

\* faulty variant: any reported length is long enough
MinLengthOk_Always(extracted_length) == TRUE

\* faulty variant: a reported length equal to the threshold is long enough
MinLengthOk_NonStrict(extracted_length) == extracted_length >= MinLength

\* min_length_ok = extracted_length > 100
MinLengthOk(extracted_length) == extracted_length > MinLength

\* faulty variant: a failing has_substance check leaves all_passed alone
validate_extraction_NoSubstance(extracted_content, original_length, extracted_length) ==
    LET min_length_ok == MinLengthOk(extracted_length)
        has_html == HasHtmlTag(extracted_content)
        has_substance == Strip(extracted_content) # <<>>
        checks == << <<"min_length", min_length_ok>>,
                     <<"no_html_tags", ~has_html>>,
                     <<"has_substance", has_substance>> >>
        all_passed == min_length_ok /\ ~has_html
    IN  [passed |-> all_passed,
         reason |-> IF all_passed THEN <<"All quality checks passed">>
                    ELSE <<"Failed checks">> \o FailedChecks(checks),
         checks |-> checks]

validate_extraction(extracted_content, original_length, extracted_length) ==
    LET min_length_ok == MinLengthOk(extracted_length)
        has_html == HasHtmlTag(extracted_content)
        has_substance == Strip(extracted_content) # <<>>
        checks == << <<"min_length", min_length_ok>>,
                     <<"no_html_tags", ~has_html>>,
                     <<"has_substance", has_substance>> >>
        all_passed == min_length_ok /\ ~has_html /\ has_substance
    IN  [passed |-> all_passed,
         reason |-> IF all_passed THEN <<"All quality checks passed">>
                    ELSE <<"Failed checks">> \o FailedChecks(checks),
         checks |-> checks]

\* faulty variant: a summary of exactly 40% of the original compresses well
GoodCompression_NonStrict(summary_length, original_length) ==
    10 * summary_length <= 4 * original_length

\* ratio = summary_length / original_length; good_compression = ratio < 0.4
\* (evaluated only for original_length > 0; the float quotient is below the
\* float 0.4 exactly when the exact ratio is below 4/10, for lengths of texts)
GoodCompression(summary_length, original_length) ==
    10 * summary_length < 4 * original_length

\* faulty variant: the key point threshold moves with the number of
\* evaluations made so far
validate_summary_Stateful(summary, key_points, original_length, summary_length) ==
    LET has_points == Len(key_points) >= MinKeyPoints + calls["validate_summary"]
        good_compression == GoodCompression(summary_length, original_length)
        has_content == Len(Strip(summary)) > MinSummaryChars
        checks == << <<"has_key_points", has_points>> >>
                  \o (IF original_length > 0
                      THEN << <<"good_compression", good_compression>> >>
                      ELSE <<>>)
                  \o << <<"has_content", has_content>> >>
        all_passed == /\ has_points
                      /\ (original_length > 0 => good_compression)
                      /\ has_content
    IN  [passed |-> all_passed,
         reason |-> IF all_passed THEN <<"All summary checks passed">>
                    ELSE <<"Failed checks">> \o FailedChecks(checks),
         checks |-> checks]

validate_summary(summary, key_points, original_length, summary_length) ==
    LET has_points == Len(key_points) >= MinKeyPoints
        good_compression == GoodCompression(summary_length, original_length)
        has_content == Len(Strip(summary)) > MinSummaryChars
        checks == << <<"has_key_points", has_points>> >>
                  \o (IF original_length > 0
                      THEN << <<"good_compression", good_compression>> >>
                      ELSE <<>>)
                  \o << <<"has_content", has_content>> >>
        all_passed == /\ has_points
                      /\ (original_length > 0 => good_compression)
                      /\ has_content
    IN  [passed |-> all_passed,
         reason |-> IF all_passed THEN <<"All summary checks passed">>
                    ELSE <<"Failed checks">> \o FailedChecks(checks),
         checks |-> checks]

----------------------------------------------------------------------------
\* content_pipeline.py: the stage runner and run_pipeline.

\* content ids run_pipeline may be called with; the last one is not stored
ContentIds == {"article-001", "doc-001", "article-999"}
\* ids of SAMPLE_ARTICLES and SAMPLE_DOCUMENTS
StoredIds == {"article-001", "article-002", "article-003", "article-004",
              "doc-001", "doc-002", "doc-003"}

\* faulty variant: every content id is taken to be in the store
NotFound_Never(cid) == FALSE

\* fetch_and_clean_content(content_id) is None
NotFound(cid) == cid \notin StoredIds

\* locals of run_stage_safe when the query starts
FreshStage == [result |-> None, error |-> None, msgs |-> 0]

\* the stage whose query is in flight
StageName == IF pc_p = "extract" THEN "EXTRACT" ELSE "SUMMARIZE"

\* the schema class of the stage whose query is in flight
StageOutputs == IF pc_p = "extract" THEN ExtractResult ELSE SummarizeResult

\* faulty variant: an outcome with an error keeps the parsed result
StageOutcome_KeepsResult(s, stage) ==
    IF s.error # None THEN <<s.result, s.error>>
    ELSE IF s.result # None THEN <<s.result, None>>
    ELSE <<None, Some(<<stage, "No result received">>)>>

\* faulty variant: a parsed result wins over a reported error
StageOutcome_ResultFirst(s, stage) ==
    IF s.result # None THEN <<s.result, None>>
    ELSE IF s.error # None THEN <<None, s.error>>
    ELSE <<None, Some(<<stage, "No result received">>)>>

\* how run_stage_safe's loop treats a message: a ResultMessage with a valid
\* structured output ("output"), with one that fails validation ("invalid"),
\* with none and the retries subtype ("gaveup"), with none and another
\* subtype ("plain"), or a message that is no ResultMessage ("other")
MessageClass(m) ==
    IF m.kind # "result" THEN "other"
    ELSE IF m.structured_output = Some(Invalid) THEN "invalid"
    ELSE IF m.structured_output # None THEN "output"
    ELSE IF m.subtype = "error_max_structured_output_retries" THEN "gaveup"
    ELSE "plain"

\* what run_stage_safe returns when the stream ends: <<result, error>>
StageOutcome(s, stage) ==
    IF s.error # None THEN <<None, s.error>>
    ELSE IF s.result # None THEN <<s.result, None>>
    ELSE <<None, Some(<<stage, "No result received">>)>>

Bump(name) == [calls EXCEPT ![name] = @ + 1]

\* run_pipeline returns d
Return(d) ==
    /\ pipeline_result' = Some(d)
    /\ pc_p' = "done"
    /\ st' = FreshStage

\* faulty variant: the extraction gate's verdict is not acted upon
GateStops_Never(g) == FALSE

\* `if not step2_result.passed:` the extraction gate stops the pipeline
GateStops(g) == ~g.passed

\* faulty variant: a stage error is reported as a failure of the extraction gate
StageFailure_AsGate(e) ==
    [success |-> FALSE, failed_at |-> "extraction_gate", reason |-> e]

\* the dict run_pipeline returns when a stage's outcome carries an error
StageFailure(e) == [success |-> FALSE, error |-> e]

\* the dict run_pipeline returns when a gate fails
GateFailure(gate, g) == [success |-> FALSE, failed_at |-> gate, reason |-> g.reason]

\* run_pipeline from the return of run_extract to the next query or return
AfterExtract(out, log) ==
    /\ step1_result' = out[1]
    /\ error' = out[2]
    /\ UNCHANGED <<step3_result, step4_result>>
    /\ IF out[2] # None
       THEN /\ Return(StageFailure(Get(out[2])))
            /\ stream_log' = log
            /\ UNCHANGED <<step2_result, calls>>
       ELSE LET r == Get(out[1])
                g == validate_extraction(r.extracted_content, r.original_length,
                                         r.extracted_length)
            IN  /\ step2_result' = Some(g)
                /\ IF GateStops(g)
                   THEN /\ Return(GateFailure("extraction_gate", g))
                        /\ stream_log' = log
                        /\ calls' = Bump("validate_extraction")
                   ELSE /\ pc_p' = "summarize"
                        /\ st' = FreshStage
                        /\ stream_log' = <<>>
                        /\ pipeline_result' = pipeline_result
                        /\ calls' = [calls EXCEPT !["validate_extraction"] = @ + 1,
                                                  !["run_summarize"] = @ + 1,
                                                  !["query"] = @ + 1]

\* faulty variant: the summary gate's verdict is not looked at
SummaryAccepted_Always(g) == TRUE

\* `if step4_result.passed:` the summary gate lets the pipeline succeed
SummaryAccepted(g) == g.passed

\* run_pipeline from the return of run_summarize to its return
AfterSummarize(out, log) ==
    /\ step3_result' = out[1]
    /\ error' = out[2]
    /\ stream_log' = log
    /\ UNCHANGED <<step1_result, step2_result>>
    /\ IF out[2] # None
       THEN /\ Return(StageFailure(Get(out[2])))
            /\ UNCHANGED <<step4_result, calls>>
       ELSE LET r == Get(out[1])
                g == validate_summary(r.summary, r.key_points, r.original_length,
                                      r.summary_length)
            IN  /\ step4_result' = Some(g)
                /\ calls' = Bump("validate_summary")
                /\ IF SummaryAccepted(g)
                   THEN Return([success |-> TRUE, title |-> Get(step1_result).title,
                                summary |-> r.summary, key_points |-> r.key_points])
                   ELSE Return(GateFailure("summary_gate", g))

\* run_stage_safe returned out to run_extract or run_summarize
StageReturns(out, log) ==
    IF pc_p = "extract" THEN AfterExtract(out, log) ELSE AfterSummarize(out, log)

\* run_pipeline is called: run_extract fetches the content and starts its query
PipelineStart ==
    /\ prog = "pipeline" /\ pc_p = "start"
    /\ IF NotFound(content_id)
       THEN /\ error' = Some(<<"Content not found", content_id>>)
            /\ Return(StageFailure(<<"Content not found", content_id>>))
            /\ calls' = Bump("run_extract")
            /\ stream_log' = stream_log
       ELSE /\ pc_p' = "extract"
            /\ st' = FreshStage
            /\ UNCHANGED <<error, pipeline_result, stream_log>>
            /\ calls' = [calls EXCEPT !["run_extract"] = @ + 1, !["query"] = @ + 1]
    /\ UNCHANGED <<hvars, rvars, prog, content_id, step1_result, step2_result, step3_result,
                   step4_result, lvars, tvars, ovars>>

\* the body of run_stage_safe's async for, on one message of the stream
StageMessage ==
    /\ prog = "pipeline" /\ pc_p \in {"extract", "summarize"}
    /\ st.msgs < MaxMsgs
    /\ \E m \in Message(StageOutputs, {}) :
         IF m.kind = "result" /\ m.structured_output = Some(Invalid)
         THEN \* model_validate raises; the except clause returns the error
              StageReturns(<<None, Some(<<StageName, "validation error">>)>>,
                           Append(stream_log, MessageClass(m)))
         ELSE /\ st' = IF m.kind = "result" /\ m.structured_output # None
                          THEN [st EXCEPT !.result = m.structured_output,
                                          !.msgs = @ + 1]
                        ELSE IF m.kind = "result"
                                /\ m.subtype = "error_max_structured_output_retries"
                          THEN [st EXCEPT
                                  !.error = Some(<<StageName,
                                      "Could not produce valid output after retries">>),
                                  !.msgs = @ + 1]
                        ELSE [st EXCEPT !.msgs = @ + 1]
              /\ stream_log' = Append(stream_log, MessageClass(m))
              /\ UNCHANGED <<pc_p, step1_result, step2_result, step3_result,
                             step4_result, error, pipeline_result, calls>>
    /\ UNCHANGED <<hvars, rvars, prog, content_id, lvars, tvars, ovars>>

\* the stream ends: run_stage_safe returns and run_pipeline goes on
StageEnd ==
    /\ prog = "pipeline" /\ pc_p \in {"extract", "summarize"}
    /\ StageReturns(StageOutcome(st, StageName), stream_log)
    /\ UNCHANGED <<hvars, rvars, prog, content_id, lvars, tvars, ovars>>

\* query raises: the except clause of run_stage_safe returns the error
StageRaise ==
    /\ prog = "pipeline" /\ pc_p \in {"extract", "summarize"}
    /\ StageReturns(<<None, Some(<<StageName, "gateway exception">>)>>,
                    Append(stream_log, "raise"))
    /\ UNCHANGED <<hvars, rvars, prog, content_id, lvars, tvars, ovars>>

NextPipeline == PipelineStart \/ StageMessage \/ StageEnd \/ StageRaise

----------------------------------------------------------------------------
\* eval_optimize_agent.py: generate, evaluate and main.

GenerateModel == [thoughts : {"t"}, result : {"r1", "r2"}]
EvalModel == [eval : {"PASS", "FAIL"}, feedback : {"f1", "f2"}]

\* locals of generate or evaluate when the query starts
FreshQuery == [result |-> None, msgs |-> 0]

\* faulty variant: the latest attempt is left out of the context
BuildContext_DropsLatest(mem, feedback) ==
    << <<"Previous attempts:">> >>
    \o [i \in 1..(Len(mem) - 1) |-> <<"- ", mem[i]>>]
    \o << <<"\nFeedback; ", feedback>> >>

\* "\n".join(["Previous attempts:", *[f"- {m}" for m in memory],
\*            f"\nFeedback; {feedback}"])
BuildContext(mem, feedback) ==
    << <<"Previous attempts:">> >>
    \o [i \in 1..Len(mem) |-> <<"- ", mem[i]>>]
    \o << <<"\nFeedback; ", feedback>> >>

\* main raises e (nothing in main catches)
LoopRaises(e) ==
    /\ pc_l' = "raised"
    /\ loop_out' = Some([exception |-> e])
    /\ lq' = FreshQuery

\* main calls generate(generator_prompt, task, ctx): the query starts
CallGenerate(ctx) ==
    /\ Len(gen_contexts) < MaxAttempts
    /\ pc_l' = "generate"
    /\ lq' = FreshQuery
    /\ gen_contexts' = Append(gen_contexts, ctx)

\* main is called: the first test of the while loop and the first generate
LoopStart ==
    /\ prog = "loop" /\ pc_l = "start"
    /\ CallGenerate(context)
    /\ UNCHANGED <<hvars, rvars, prog, pvars, tvars, ovars, memory, chain_of_thought, context, eval, result,
                   loop_out, eval_log>>

\* the body of the async for of generate and evaluate, on one message
LoopMessage ==
    /\ prog = "loop" /\ pc_l \in {"generate", "evaluate"}
    /\ lq.msgs < MaxMsgs
    /\ \E m \in Message(IF pc_l = "generate" THEN GenerateModel ELSE EvalModel, {}) :
         IF m.kind = "result" /\ m.structured_output = Some(Invalid)
         THEN \* model_validate raises out of generate / evaluate and main
              /\ LoopRaises("ValidationError")
              /\ UNCHANGED <<memory, chain_of_thought, context, eval, result,
                             gen_contexts, eval_log>>
         ELSE /\ lq' = IF m.kind = "result" /\ m.structured_output # None
                          THEN [result |-> m.structured_output, msgs |-> lq.msgs + 1]
                        ELSE [lq EXCEPT !.msgs = @ + 1]
              /\ UNCHANGED <<pc_l, memory, chain_of_thought, context, eval, result,
                             loop_out, gen_contexts, eval_log>>
    /\ UNCHANGED <<hvars, rvars, prog, pvars, tvars, ovars>>

\* faulty variant: the loop goes on whatever the evaluator said
LoopContinues_Always(e) == TRUE

\* `while eval == "FAIL":` tested after an evaluation
LoopContinues(e) == e = "FAIL"

\* faulty variant: the newest record is put in front of the older ones
RecordAttempt_InFront(cot, g) ==
    <<[thoughts |-> g.thoughts, result |-> g.result]>> \o cot

\* chain_of_thought.append({"thoughts": thoughts, "result": result})
RecordAttempt(cot, g) ==
    Append(cot, [thoughts |-> g.thoughts, result |-> g.result])

\* the stream of generate ends: generate returns or raises, main records the
\* attempt and calls evaluate
GenerateEnd ==
    /\ prog = "loop" /\ pc_l = "generate"
    /\ IF lq.result = None
       THEN /\ LoopRaises("Failed to generate gen result")
            /\ UNCHANGED <<memory, chain_of_thought, result>>
       ELSE LET g == Get(lq.result)
            IN  /\ result' = g.result
                /\ memory' = Append(memory, g.result)
                /\ chain_of_thought' = RecordAttempt(chain_of_thought, g)
                /\ pc_l' = "evaluate"
                /\ lq' = FreshQuery
                /\ loop_out' = loop_out
    /\ UNCHANGED <<hvars, rvars, prog, pvars, tvars, ovars, context, eval, gen_contexts,
                   eval_log>>

\* the stream of evaluate ends: evaluate returns or raises, main rebuilds the
\* context, tests the loop condition and either generates again or returns
EvaluateEnd ==
    /\ prog = "loop" /\ pc_l = "evaluate"
    /\ IF lq.result = None
       THEN /\ LoopRaises("Failed to generate eval result")
            /\ UNCHANGED <<context, eval, gen_contexts, eval_log>>
       ELSE LET e == Get(lq.result)
                ctx == BuildContext(memory, e.feedback)
            IN  /\ eval' = e.eval
                /\ eval_log' = Append(eval_log, e)
                /\ context' = ctx
                /\ IF LoopContinues(e.eval)
                   THEN /\ CallGenerate(ctx)
                        /\ loop_out' = loop_out
                   ELSE /\ pc_l' = "returned"
                        /\ loop_out' = Some([result |-> result,
                                             chain_of_thought |-> chain_of_thought])
                        /\ lq' = FreshQuery
                        /\ gen_contexts' = gen_contexts
    /\ UNCHANGED <<hvars, rvars, prog, pvars, tvars, ovars, memory, chain_of_thought, result>>

\* query raises inside generate or evaluate: the exception leaves main
LoopQueryRaise ==
    /\ prog = "loop" /\ pc_l \in {"generate", "evaluate"}
    /\ LoopRaises("gateway exception")
    /\ UNCHANGED <<hvars, rvars, prog, pvars, tvars, ovars, memory, chain_of_thought, context, eval, result,
                   gen_contexts, eval_log>>

NextLoop == LoopStart \/ LoopMessage \/ GenerateEnd \/ EvaluateEnd \/ LoopQueryRaise

----------------------------------------------------------------------------
\* task_breakdown.py: identify_work_streams, run_worker, run_all_workers,
\* synthesize_plan and run_orchestrator.

\* keys of WORK_STREAM_TO_WORKER
WORK_STREAM_TO_WORKER ==
    {"technical", "testing", "documentation", "operations"}

\* work stream names the planner may return; "security" is not registered
PlanStreams == {"technical", "testing", "security"}

WorkStreamPlan == [work_streams : SeqUpTo(PlanStreams, MaxPlanLen)]

\* ResultMessage.result texts of a worker or of the synthesis
ResultTexts == {"", "md1", "md2"}

\* d[k] = v on a dict kept as a sequence of <<key, value>> in insertion order
DictSet(d, k, v) ==
    IF \E i \in 1..Len(d) : d[i][1] = k
    THEN [i \in 1..Len(d) |-> IF d[i][1] = k THEN <<k, v>> ELSE d[i]]
    ELSE Append(d, <<k, v>>)

\* run_orchestrator ends: it returns d or an exception leaves it
TbEnds(to, d) ==
    /\ pc_t' = to
    /\ tb_out' = Some(d)
    /\ tq' = FreshQuery

\* run_orchestrator from the return of run_all_workers: no results, or the
\* synthesis query starts
AfterWorkers(res) ==
    IF res = <<>>
    THEN /\ TbEnds("returned", [success |-> FALSE, error |-> "No worker results"])
         /\ synth_input' = synth_input
         /\ tb_calls' = tb_calls
    ELSE /\ pc_t' = "synth"
         /\ tq' = FreshQuery
         /\ synth_input' = Some(res)
         /\ tb_out' = tb_out
         /\ tb_calls' = Append(tb_calls, <<"synthesize_plan">>)

\* run_all_workers reaches work stream i of streams with results res:
\* run_worker looks the stream up and starts its query, or the loop is over
RunWorker(streams, i, res, ws) ==
    IF i > Len(streams)
    THEN /\ AfterWorkers(res)
         /\ wstate' = ws
         /\ widx' = widx
    ELSE IF streams[i] \notin WORK_STREAM_TO_WORKER
    THEN \* WORK_STREAM_TO_WORKER[work_stream] raises KeyError
         /\ TbEnds("raised", [exception |-> "KeyError", key |-> streams[i]])
         /\ wstate' = [ws EXCEPT ![i] = "raised"]
         /\ widx' = i
         /\ synth_input' = synth_input
         /\ tb_calls' = Append(tb_calls, <<"run_worker", i>>)
    ELSE /\ pc_t' = "worker"
         /\ tq' = FreshQuery
         /\ wstate' = [ws EXCEPT ![i] = "running"]
         /\ widx' = i
         /\ tb_calls' = Append(tb_calls, <<"run_worker", i>>)
         /\ UNCHANGED <<synth_input, tb_out>>

\* run_orchestrator is called: the planning query starts
TbStart ==
    /\ prog = "task_breakdown" /\ pc_t = "start"
    /\ pc_t' = "plan"
    /\ tq' = FreshQuery
    /\ tb_calls' = Append(tb_calls, <<"identify_work_streams">>)
    /\ UNCHANGED <<hvars, rvars, prog, pvars, lvars, ovars, plan, widx, wstate, results,
                   synth_input, tb_out>>

\* the body of the async for of the running query, on one message
TbMessage ==
    /\ prog = "task_breakdown" /\ pc_t \in {"plan", "worker", "synth"}
    /\ tq.msgs < MaxMsgs
    /\ \E m \in Message(IF pc_t = "plan" THEN WorkStreamPlan ELSE {},
                        IF pc_t = "plan" THEN {} ELSE ResultTexts) :
         IF pc_t = "plan"
         THEN IF m.kind = "result" /\ m.structured_output = Some(Invalid)
              THEN \* model_validate raises out of run_orchestrator
                   TbEnds("raised", [exception |-> "ValidationError"])
              ELSE /\ tq' = IF m.kind = "result" /\ m.structured_output # None
                               THEN [result |-> m.structured_output,
                                     msgs |-> tq.msgs + 1]
                             ELSE [tq EXCEPT !.msgs = @ + 1]
                   /\ UNCHANGED <<pc_t, tb_out>>
         ELSE /\ tq' = IF m.kind = "result"
                          THEN [result |-> m.result, msgs |-> tq.msgs + 1]
                        ELSE [tq EXCEPT !.msgs = @ + 1]
              /\ UNCHANGED <<pc_t, tb_out>>
    /\ UNCHANGED <<hvars, rvars, prog, pvars, lvars, ovars, plan, widx, wstate, results,
                   synth_input, tb_calls>>

\* the planning stream ends: no plan, or run_all_workers starts its loop
PlanEnd ==
    /\ prog = "task_breakdown" /\ pc_t = "plan"
    /\ IF tq.result = None
       THEN /\ TbEnds("returned",
                      [success |-> FALSE, error |-> "Failed to identify work streams"])
            /\ UNCHANGED <<plan, widx, wstate, synth_input, tb_calls>>
       ELSE LET streams == Get(tq.result).work_streams
            IN  /\ plan' = tq.result
                /\ RunWorker(streams, 1, <<>>, [i \in 1..Len(streams) |-> "pending"])
    /\ UNCHANGED <<hvars, rvars, prog, pvars, lvars, ovars, results>>

\* faulty variant: the loop stays on the work stream it has just run
NextStream_Same(i) == i

\* `for stream in work_streams:` goes on to the next work stream
NextStream(i) == i + 1

\* a worker's stream ends: run_worker returns, run_all_workers keeps the
\* output if there is one and goes on to the next work stream
WorkerEnd ==
    /\ prog = "task_breakdown" /\ pc_t = "worker"
    /\ LET streams == Get(plan).work_streams
           output == tq.result
           has == output # None /\ Get(output) # ""
           res == IF has THEN DictSet(results, streams[widx], Get(output))
                  ELSE results
       IN  /\ results' = res
           /\ RunWorker(streams, NextStream(widx), res,
                        [wstate EXCEPT ![widx] = IF has THEN "done" ELSE "empty"])
    /\ UNCHANGED <<hvars, rvars, prog, pvars, lvars, ovars, plan>>

\* the synthesis stream ends: run_orchestrator returns
SynthEnd ==
    /\ prog = "task_breakdown" /\ pc_t = "synth"
    /\ IF tq.result = None \/ tq.result = Some("")
       THEN TbEnds("returned", [success |-> FALSE, error |-> "Synthesis failed"])
       ELSE TbEnds("returned", [success |-> TRUE,
                                work_streams |-> Get(plan).work_streams,
                                plan |-> Get(tq.result)])
    /\ UNCHANGED <<hvars, rvars, prog, pvars, lvars, ovars, plan, widx, wstate, results,
                   synth_input, tb_calls>>

\* query raises: nothing in task_breakdown.py catches it
TbQueryRaise ==
    /\ prog = "task_breakdown" /\ pc_t \in {"plan", "worker", "synth"}
    /\ TbEnds("raised", [exception |-> "gateway exception"])
    /\ wstate' = IF pc_t = "worker" THEN [wstate EXCEPT ![widx] = "raised"]
                 ELSE wstate
    /\ UNCHANGED <<hvars, rvars, prog, pvars, lvars, ovars, plan, widx, results, synth_input,
                   tb_calls>>

NextTaskBreakdown ==
    TbStart \/ TbMessage \/ PlanEnd \/ WorkerEnd \/ SynthEnd \/ TbQueryRaise

----------------------------------------------------------------------------
\* orchestrator_agent.py: process_worker and process.

Tasks == [task_agent : {"formal", "conversational"}, description : {"d"}]
OrchestratorOutput == [analysis : {"an"}, tasks : SeqUpTo(Tasks, MaxPlanLen)]
WorkerOutput == [style : {"formal", "conversational"}, task : {"t"},
                 response : {"resp"}]

\* a process_worker coroutine that asyncio.gather has just scheduled
FreshWorker == [state |-> "running", response |-> None, msgs |-> 0]

\* faulty variant: the results are collected in the order the workers end
Gather_ByCompletion(ws, order) ==
    [k \in 1..Len(ws) |-> Get(ws[order[k]].response)]

\* what `await asyncio.gather(*worker_futures)` evaluates to once every
\* worker has returned: the workers' results in the order of the arguments,
\* whatever the order (order) in which they ended
Gather(ws, order) == [i \in 1..Len(ws) |-> Get(ws[i].response)]

\* process ends: it returns d or an exception leaves it
OaEnds(to, d) ==
    /\ pc_o' = to
    /\ oa_out' = Some(d)

\* worker i raises e: gather hands the exception to process, which does not
\* catch it, and asyncio.run cancels the workers that are still running
WorkerRaises(i, e) ==
    /\ workers' = [j \in 1..Len(workers) |->
                     IF j = i THEN [workers[j] EXCEPT !.state = "raised"]
                     ELSE IF workers[j].state = "running"
                          THEN [workers[j] EXCEPT !.state = "cancelled"]
                          ELSE workers[j]]
    /\ completion' = Append(completion, i)
    /\ OaEnds("raised", [exception |-> e, worker |-> i])

\* process is called: the planning query starts
OaStart ==
    /\ prog = "orchestrator" /\ pc_o = "start"
    /\ pc_o' = "plan"
    /\ oq' = FreshQuery
    /\ UNCHANGED <<hvars, rvars, prog, pvars, lvars, tvars, tasks, workers, completion, oa_out>>

\* the body of the planning query's async for, on one message
OaPlanMessage ==
    /\ prog = "orchestrator" /\ pc_o = "plan"
    /\ oq.msgs < MaxMsgs
    /\ \E m \in Message(OrchestratorOutput, {}) :
         IF m.kind = "result" /\ m.structured_output = Some(Invalid)
         THEN /\ OaEnds("raised", [exception |-> "ValidationError"])
              /\ oq' = oq
         ELSE /\ oq' = IF m.kind = "result" /\ m.structured_output # None
                          THEN [result |-> m.structured_output, msgs |-> oq.msgs + 1]
                        ELSE [oq EXCEPT !.msgs = @ + 1]
              /\ UNCHANGED <<pc_o, oa_out>>
    /\ UNCHANGED <<hvars, rvars, prog, pvars, lvars, tvars, tasks, workers, completion>>

\* the planning stream ends: process reads the plan and gathers one
\* process_worker per task
OaPlanEnd ==
    /\ prog = "orchestrator" /\ pc_o = "plan"
    /\ IF oq.result = None
       THEN \* orchestrator_response.analysis on None
            /\ OaEnds("raised", [exception |-> "AttributeError"])
            /\ UNCHANGED <<tasks, workers>>
       ELSE LET r == Get(oq.result)
            IN  /\ tasks' = r.tasks
                /\ workers' = [i \in 1..Len(r.tasks) |-> FreshWorker]
                /\ IF r.tasks = <<>>
                   THEN OaEnds("returned",
                               [analysis |-> r.analysis, worker_results |-> <<>>])
                   ELSE /\ pc_o' = "gather"
                        /\ oa_out' = oa_out
    /\ UNCHANGED <<hvars, rvars, prog, pvars, lvars, tvars, oq, completion>>

\* the planning query raises: the exception leaves process
OaPlanRaise ==
    /\ prog = "orchestrator" /\ pc_o = "plan"
    /\ OaEnds("raised", [exception |-> "gateway exception"])
    /\ UNCHANGED <<hvars, rvars, prog, pvars, lvars, tvars, tasks, oq, workers, completion>>

\* the body of the async for of process_worker i, on one message
OaWorkerMessage ==
    /\ prog = "orchestrator" /\ pc_o = "gather"
    /\ \E i \in 1..Len(workers) :
         /\ workers[i].state = "running"
         /\ workers[i].msgs < MaxMsgs
         /\ \E m \in Message(WorkerOutput, {}) :
              IF m.kind = "result" /\ m.structured_output = Some(Invalid)
              THEN WorkerRaises(i, "ValidationError")
              ELSE /\ workers' =
                        [workers EXCEPT ![i] =
                           IF m.kind = "result" /\ m.structured_output # None
                           THEN [@ EXCEPT !.response = m.structured_output,
                                          !.msgs = @ + 1]
                           ELSE [@ EXCEPT !.msgs = @ + 1]]
                   /\ UNCHANGED <<pc_o, completion, oa_out>>
    /\ UNCHANGED <<hvars, rvars, prog, pvars, lvars, tvars, tasks, oq>>

\* the stream of process_worker i ends: the worker returns its response or
\* raises; when the last worker returns, gather returns and so does process
OaWorkerEnd ==
    /\ prog = "orchestrator" /\ pc_o = "gather"
    /\ \E i \in 1..Len(workers) :
         /\ workers[i].state = "running"
         /\ IF workers[i].response = None
            THEN WorkerRaises(i, "Worker response is empty")
            ELSE LET ws == [workers EXCEPT ![i].state = "done"]
                     order == Append(completion, i)
                 IN  /\ workers' = ws
                     /\ completion' = order
                     /\ IF \A j \in 1..Len(ws) : ws[j].state = "done"
                        THEN OaEnds("returned",
                                    [analysis |-> Get(oq.result).analysis,
                                     worker_results |-> Gather(ws, order)])
                        ELSE UNCHANGED <<pc_o, oa_out>>
    /\ UNCHANGED <<hvars, rvars, prog, pvars, lvars, tvars, tasks, oq>>

\* the query of process_worker i raises
OaWorkerRaise ==
    /\ prog = "orchestrator" /\ pc_o = "gather"
    /\ \E i \in 1..Len(workers) :
         /\ workers[i].state = "running"
         /\ WorkerRaises(i, "gateway exception")
    /\ UNCHANGED <<hvars, rvars, prog, pvars, lvars, tvars, tasks, oq>>

NextOrchestrator ==
    OaStart \/ OaPlanMessage \/ OaPlanEnd \/ OaPlanRaise
    \/ OaWorkerMessage \/ OaWorkerEnd \/ OaWorkerRaise

----------------------------------------------------------------------------
\* hello_world.py: the PreToolUse hook validate_script_writes.

\* A file path is a sequence of parts: a directory or file name, a
\* separator, or an extension. No part is a piece of another one, so that
\* str.endswith and the substring test `in` are tests on whole parts.
PathParts == {"custom_scripts", "x", "/", ".py", ".ts", ".js"}

FilePaths == SeqUpTo(PathParts, MaxPathLen)

\* tools the agent may call; the matcher 'Write|Edit' selects two of them
ToolNames == {"Write", "Edit", "Read"}

\* HookMatcher(matcher='Write|Edit', hooks=[validate_script_writes])
Matches(tool) == tool \in {"Write", "Edit"}

\* file_path.endswith(('.py', '.ts', '.js'))
EndsWithScript(path) ==
    path # <<>> /\ path[Len(path)] \in {".py", ".ts", ".js"}

\* 'custom_scripts' in file_path
ContainsCustomScripts(path) == \E i \in 1..Len(path) : path[i] = "custom_scripts"

\* the dict that denies the tool call
Deny ==
    << <<"hookSpecificOutput",
         << <<"hookEventName", "PreToolUse">>,
            <<"permissionDecision", "deny">>,
            <<"permissionDecisionReason",
              "Script files (.py, .js, .ts) must be written to custom_scripts directory">> >> >> >>

\* what validate_script_writes returns for a file path: Deny or {}
validate_script_writes(path) ==
    IF EndsWithScript(path) /\ ~ContainsCustomScripts(path) THEN Deny ELSE <<>>

\* the agent is about to call a tool: the hooks whose matcher selects the
\* tool run
PreToolUse ==
    /\ prog = "hello_world" /\ pc_h = "start"
    /\ pc_h' = "done"
    /\ hook_out' = IF Matches(tool_name) THEN Some(validate_script_writes(file_path))
                   ELSE None
    /\ UNCHANGED <<prog, pvars, lvars, tvars, ovars, rvars, tool_name, file_path>>

NextHelloWorld == PreToolUse

----------------------------------------------------------------------------
\* resume_generator.py: the tool evaluate_resume_quality.

Max(a, b) == IF a >= b THEN a ELSE b
Min(a, b) == IF a <= b THEN a ELSE b

\* The header of a resume: absent or {} (empty), or a dict whose truthy
\* fields among name, email, location are `fields`.
HeaderSamples ==
    { [empty |-> TRUE, fields |-> {}],
      [empty |-> FALSE, fields |-> {}],
      [empty |-> FALSE, fields |-> {"name"}],
      [empty |-> FALSE, fields |-> {"name", "email", "location"}] }

\* The description of a job: its bullets, each at most 100 characters long
\* ("short") or longer ("long").
BulletSamples == { <<>>, <<"short">>, <<"long", "long">> }

\* A job: whether title and company are both there, and its bullets.
Jobs == [title_company : BOOLEAN, description : BulletSamples]

\* A resume as evaluate_resume_quality reads it: the header, the number of
\* sentences of the summary (0: no summary), the jobs, which of education
\* and skills are there, and the number of matches the metric patterns
\* find in the summary and the bullets (none in an empty text).
Resumes ==
    { r \in [header : HeaderSamples,
             sentences : {0, 3, 4},
             experience : SeqUpTo(Jobs, MaxJobs),
             sections : { {}, {"education"}, {"education", "skills"} },
             metrics_found : {0, 1, 3, 5}] :
        (/\ r.sentences = 0
         /\ \A j \in 1..Len(r.experience) : r.experience[j].description = <<>>)
        => r.metrics_found = 0 }

NoResume ==
    [header |-> [empty |-> TRUE, fields |-> {}], sentences |-> 0,
     experience |-> <<>>, sections |-> {}, metrics_found |-> 0]

\* missing = [s for s in required if s not in resume or not resume[s]]
MissingSections(r) ==
    (IF r.header.empty THEN {"header"} ELSE {})
    \cup (IF r.sentences = 0 THEN {"summary"} ELSE {})
    \cup (IF r.experience = <<>> THEN {"experience"} ELSE {})
    \cup ({"education", "skills"} \ r.sections)

\* the bullets longer than 100 characters, over all jobs
LongBullets(r) ==
    { p \in UNION { {<<j, b>> : b \in 1..Len(r.experience[j].description)} :
                    j \in 1..Len(r.experience) } :
        r.experience[p[1]].description[p[2]] = "long" }

CompletenessScore(r) == Max(0, 25 - 5 * Cardinality(MissingSections(r)))

ConcisenessScore(r) ==
    25 - (IF r.sentences > 3 THEN 10 ELSE 0)
       - (IF LongBullets(r) # {} THEN Min(15, 5 * Cardinality(LongBullets(r))) ELSE 0)

\* faulty variant: many metrics earn more than the 25 points of the criterion
SpecificityScore_Generous(metrics_found) ==
    IF metrics_found >= 5 THEN 30
    ELSE IF metrics_found >= 3 THEN 20
    ELSE IF metrics_found >= 1 THEN 15
    ELSE 5

SpecificityScore(metrics_found) ==
    IF metrics_found >= 5 THEN 25
    ELSE IF metrics_found >= 3 THEN 20
    ELSE IF metrics_found >= 1 THEN 15
    ELSE 5

\* 5 points off per missing header field, and 5 off once for the first job
\* without title or company or without bullets
FormattingScore(r) ==
    25 - 5 * (3 - Cardinality(r.header.fields))
       - (IF \E j \in 1..Len(r.experience) :
                 \/ ~r.experience[j].title_company
                 \/ r.experience[j].description = <<>>
          THEN 5 ELSE 0)

\* the evaluation evaluate_resume_quality returns (issues and suggestions,
\* which are texts for the reader, are left out)
evaluate_resume_quality(r) ==
    LET completeness_score == CompletenessScore(r)
        conciseness_score == ConcisenessScore(r)
        specificity_score == SpecificityScore(r.metrics_found)
        formatting_score == FormattingScore(r)
        score == completeness_score + Max(0, conciseness_score)
                 + specificity_score + Max(0, formatting_score)
    IN  [score |-> score,
         max_score |-> 100,
         passing |-> score >= 75,
         breakdown |-> [completeness |-> completeness_score,
                        conciseness |-> Max(0, conciseness_score),
                        specificity |-> specificity_score,
                        formatting |-> Max(0, formatting_score)]]

\* the tool is called on a resume
EvaluateResume ==
    /\ prog = "resume" /\ pc_r = "start"
    /\ pc_r' = "done"
    /\ report' = Some(evaluate_resume_quality(resume))
    /\ UNCHANGED <<prog, pvars, lvars, tvars, ovars, hvars, resume>>

NextResume == EvaluateResume

----------------------------------------------------------------------------
Programs == {"pipeline", "loop", "task_breakdown", "orchestrator", "hello_world",
             "resume"}

Init ==
    /\ prog \in Programs
    /\ pc_p = "start"
    /\ content_id \in (IF prog = "pipeline" THEN ContentIds ELSE {"article-001"})
    /\ st = FreshStage
    /\ step1_result = None /\ step2_result = None
    /\ step3_result = None /\ step4_result = None
    /\ error = None
    /\ pipeline_result = None
    /\ calls = [n \in {"run_extract", "query", "validate_extraction",
                        "run_summarize", "validate_summary"} |-> 0]
    /\ stream_log = <<>>
    /\ pc_l = "start"
    /\ memory = <<>> /\ chain_of_thought = <<>>
    /\ context = <<>>
    /\ eval = "FAIL"
    /\ result = ""
    /\ lq = FreshQuery
    /\ loop_out = None
    /\ gen_contexts = <<>>
    /\ eval_log = <<>>
    /\ pc_t = "start"
    /\ plan = None
    /\ tq = FreshQuery
    /\ widx = 0
    /\ wstate = <<>>
    /\ results = <<>>
    /\ synth_input = None
    /\ tb_out = None
    /\ tb_calls = <<>>
    /\ pc_o = "start"
    /\ tasks = <<>>
    /\ oq = FreshQuery
    /\ workers = <<>>
    /\ completion = <<>>
    /\ oa_out = None
    /\ pc_h = "start"
    /\ tool_name \in (IF prog = "hello_world" THEN ToolNames ELSE {"Write"})
    /\ file_path \in (IF prog = "hello_world" THEN FilePaths ELSE {<<>>})
    /\ hook_out = None
    /\ pc_r = "start"
    /\ resume \in (IF prog = "resume" THEN Resumes ELSE {NoResume})
    /\ report = None

InitPipeline == Init /\ prog = "pipeline"
InitLoop == Init /\ prog = "loop"
InitTaskBreakdown == Init /\ prog = "task_breakdown"
InitOrchestrator == Init /\ prog = "orchestrator"
InitOrchestrators == Init /\ prog \in {"task_breakdown", "orchestrator"}
InitHelloWorld == Init /\ prog = "hello_world"
InitResume == Init /\ prog = "resume"

Next ==
    \/ NextPipeline \/ NextLoop \/ NextTaskBreakdown \/ NextOrchestrator
    \/ NextHelloWorld \/ NextResume

Spec == Init /\ [][Next]_vars

SpecPipeline == InitPipeline /\ [][NextPipeline]_vars

SpecHelloWorld == InitHelloWorld /\ [][NextHelloWorld]_vars

SpecResume == InitResume /\ [][NextResume]_vars

SpecLoop == InitLoop /\ [][NextLoop]_vars

SpecTaskBreakdown == InitTaskBreakdown /\ [][NextTaskBreakdown]_vars

SpecOrchestrator == InitOrchestrator /\ [][NextOrchestrator]_vars

\* both orchestrators
SpecOrchestrators ==
    InitOrchestrators /\ [][NextTaskBreakdown \/ NextOrchestrator]_vars

\* run_pipeline with the scheduling the code has: once called it runs up to
\* its first await; what the query() stream yields, and when, is up to the
\* Model Gateway, and nothing in the code bounds the wait for it
SpecPipelineFair ==
    InitPipeline /\ [][NextPipeline]_vars /\ WF_vars(PipelineStart)

----------------------------------------------------------------------------
\* Properties of run_pipeline.

\* C1: a stage starts only after every earlier gate passed. Whenever the
\* extraction gate returned passed = false, run_summarize and
\* validate_summary have been called 0 times and run_pipeline has returned
\* the failure of the extraction gate with the gate's reason; and whenever
\* run_summarize or validate_summary has been called, the extraction gate
\* ran before and passed.
C1_NoStageAfterFailedGate ==
    /\ (step2_result # None /\ ~Get(step2_result).passed) =>
           /\ calls["run_summarize"] = 0
           /\ calls["validate_summary"] = 0
           /\ step3_result = None /\ step4_result = None
           /\ pc_p = "done"
           /\ pipeline_result =
                  Some([success |-> FALSE, failed_at |-> "extraction_gate",
                        reason |-> Get(step2_result).reason])
    /\ (calls["run_summarize"] > 0 \/ calls["validate_summary"] > 0) =>
           (step2_result # None /\ Get(step2_result).passed)

\* C1 witness: the extraction gate failed on min_length alone and the run is over
C1_Witness ==
    /\ pc_p = "done"
    /\ step2_result # None
    /\ Get(step2_result).reason = <<"Failed checks", "min_length">>

\* C10: when run_extract or run_summarize returned an error, run_pipeline
\* has returned {success: False, error: <that error>} with no failed_at;
\* the gate of the failing stage has not been evaluated and no later stage
\* or gate has run. The failing stage is the one named by the error.
C10_StageErrorStops ==
    error # None =>
        /\ pc_p = "done"
        /\ pipeline_result = Some([success |-> FALSE, error |-> Get(error)])
        /\ calls["validate_summary"] = 0 /\ step4_result = None
        /\ IF Get(error)[1] \in {"EXTRACT", "Content not found"}
           THEN /\ calls["validate_extraction"] = 0 /\ step2_result = None
                /\ calls["run_summarize"] = 0
                /\ step1_result = None
           ELSE /\ Get(error)[1] = "SUMMARIZE"
                /\ calls["run_summarize"] = 1
                /\ calls["validate_extraction"] = 1
                /\ step3_result = None

\* C10 witness: the summarize stage failed after the gateway gave up on the
\* schema, after the extraction gate had passed
C10_Witness ==
    /\ error = Some(<<"SUMMARIZE", "Could not produce valid output after retries">>)
    /\ step2_result # None /\ Get(step2_result).passed
    /\ pc_p = "done"

\* every value of a checks dict is True
AllTrue(checks) == \A i \in 1..Len(checks) : checks[i][2]

\* the names of the checks of a checks dict whose value is b
NamesWith(checks, b) == {checks[i][1] : i \in {j \in 1..Len(checks) : checks[j][2] = b}}

\* the elements of a sequence
Elems(q) == {q[i] : i \in 1..Len(q)}

\* C11: for every GateResult of validate_extraction and validate_summary,
\* passed is true if and only if every entry of checks is true.
C11_PassedIffAllChecks ==
    /\ step2_result # None =>
           (Get(step2_result).passed <=> AllTrue(Get(step2_result).checks))
    /\ step4_result # None =>
           (Get(step4_result).passed <=> AllTrue(Get(step4_result).checks))

\* C11 witness: the extraction gate ran on a whitespace-only content of
\* sufficient reported length, so that has_substance alone fails
C11_Witness ==
    /\ step2_result # None
    /\ NamesWith(Get(step2_result).checks, FALSE) = {"has_substance"}

\* C12: for every GateResult with passed = false, reason is "Failed checks"
\* followed by the names of exactly the checks whose entry is false, each
\* once, in the order in which the gate defines its checks.
ReasonNamesFailures(g) ==
    ~g.passed =>
        LET names == Tail(g.reason)
        IN  /\ g.reason[1] = "Failed checks"
            /\ Elems(names) = NamesWith(g.checks, FALSE)
            /\ Elems(names) \cap NamesWith(g.checks, TRUE) = {}
            /\ Len(names) = Cardinality(Elems(names))
            /\ \A i, j \in 1..Len(names) :
                   i < j =>
                     \E a, b \in 1..Len(g.checks) :
                         /\ a < b
                         /\ g.checks[a][1] = names[i]
                         /\ g.checks[b][1] = names[j]

C12_ReasonNamesFailingChecks ==
    /\ step2_result # None => ReasonNamesFailures(Get(step2_result))
    /\ step4_result # None => ReasonNamesFailures(Get(step4_result))

\* C12 witness: the summary gate failed on two checks with a passing one
\* between them
C12_Witness ==
    /\ step4_result # None
    /\ Get(step4_result).checks =
           << <<"has_key_points", FALSE>>, <<"good_compression", TRUE>>,
              <<"has_content", FALSE>> >>

\* run_extract has returned its outcome to run_pipeline
ExtractReturned == calls["run_extract"] = 1 /\ pc_p \in {"summarize", "done"}

\* run_summarize has returned its outcome to run_pipeline
SummarizeReturned == calls["run_summarize"] = 1 /\ pc_p = "done"

\* exactly one of the two components of a stage outcome is present
ExactlyOne(value, err) == (value = None) # (err = None)

\* C13: every outcome returned by run_extract and run_summarize (hence by
\* run_stage_safe) has exactly one of value and error, whatever the stream
\* yielded: no terminal message, several, one without structured output, or
\* an exception in the middle of the stream.
C13_OutcomeHasValueXorError ==
    /\ (ExtractReturned /\ ~SummarizeReturned) => ExactlyOne(step1_result, error)
    /\ calls["run_summarize"] = 1 => step1_result # None
    /\ SummarizeReturned => ExactlyOne(step3_result, error)

\* C13 witness: the summarize stream yielded a valid structured output and
\* then a terminal message giving up on structured output; the outcome has
\* the error only
C13_Witness ==
    /\ SummarizeReturned
    /\ stream_log = <<"output", "gaveup">>
    /\ step3_result = None /\ error # None

\* C20: run_pipeline returns success = True, with the summary of stage 2
\* (and its key points and the title of stage 1), exactly when both stages
\* returned a value and both gates passed; every other result has
\* success = False and a non-empty error or reason.
C20_SuccessIffAllPassed ==
    pc_p = "done" =>
        LET r == Get(pipeline_result)
        IN  /\ r.success <=>
                   /\ step1_result # None /\ step3_result # None
                   /\ step2_result # None /\ Get(step2_result).passed
                   /\ step4_result # None /\ Get(step4_result).passed
            /\ r.success =>
                   /\ r.summary = Get(step3_result).summary
                   /\ r.key_points = Get(step3_result).key_points
                   /\ r.title = Get(step1_result).title
            /\ ~r.success =>
                   \/ "error" \in DOMAIN r /\ Len(r.error) > 0
                   \/ "reason" \in DOMAIN r /\ Len(r.reason) > 0

\* C20 witness: a run that succeeded
C20_Witness ==
    /\ pc_p = "done"
    /\ Get(pipeline_result).success
    /\ Get(step4_result).passed

\* the extraction gate evaluated now, in the current state, on the value
\* stage 1 returned
ExtractionGateNow ==
    LET r == Get(step1_result)
    IN  validate_extraction(r.extracted_content, r.original_length, r.extracted_length)

\* the summary gate evaluated now, in the current state, on the value stage
\* 2 returned
SummaryGateNow ==
    LET r == Get(step3_result)
    IN  validate_summary(r.summary, r.key_points, r.original_length, r.summary_length)

\* the result of run_pipeline as a function of the two stage outcomes alone
ResultOf(v1, v3, err) ==
    IF v1 = None THEN [success |-> FALSE, error |-> Get(err)]
    ELSE IF ~ExtractionGateNow.passed
    THEN [success |-> FALSE, failed_at |-> "extraction_gate",
          reason |-> ExtractionGateNow.reason]
    ELSE IF v3 = None THEN [success |-> FALSE, error |-> Get(err)]
    ELSE IF ~SummaryGateNow.passed
    THEN [success |-> FALSE, failed_at |-> "summary_gate",
          reason |-> SummaryGateNow.reason]
    ELSE [success |-> TRUE, title |-> Get(v1).title,
          summary |-> Get(v3).summary, key_points |-> Get(v3).key_points]

C24_ShortLengthFailsGate ==
    (step2_result # None /\ Get(step1_result).extracted_length < 100) =>
        /\ ~Get(step2_result).passed
        /\ Get(step2_result).reason[1] = "Failed checks"
        /\ "min_length" \in Elems(Tail(Get(step2_result).reason))

\* C24 witness: the gate ran on a value reporting length 50 whose other
\* checks pass
C24_Witness ==
    /\ step2_result # None
    /\ Get(step1_result).extracted_length = 50
    /\ NamesWith(Get(step2_result).checks, TRUE) = {"no_html_tags", "has_substance"}

\* C29: the min_length check is strict and looks at the reported length
\* only: checks["min_length"] is true iff extracted_length > 100, whatever
\* the actual length of extracted_content, so a value reporting exactly 100
\* fails the gate.
C29_MinLengthStrictOnReportedLength ==
    step2_result # None =>
        LET r == Get(step1_result)
            g == Get(step2_result)
        IN  /\ g.checks[1] = <<"min_length", r.extracted_length > 100>>
            /\ r.extracted_length = 100 => ~g.passed

\* C29 witness: a value reporting exactly 100 failed on min_length alone,
\* with a content of 2 characters
C29_Witness ==
    /\ step2_result # None
    /\ Get(step1_result).extracted_length = 100
    /\ Len(Get(step1_result).extracted_content) = 2
    /\ Get(step2_result).reason = <<"Failed checks", "min_length">>

\* the latest call of run_stage_safe has returned to run_pipeline, which
\* is over; stream_log is what its stream yielded
LastStageReturned == pc_p = "done" /\ calls["query"] > 0

\* the value of the outcome of the latest call of run_stage_safe
LastValue == IF calls["run_summarize"] = 1 THEN step3_result ELSE step1_result

\* the message of the error of the latest outcome
LastErrorIs(msg) == error # None /\ Get(error)[2] = msg

\* the stream of the latest call ended by itself: query did not raise and
\* no structured output failed validation
StreamEnded == \A i \in 1..Len(stream_log) : stream_log[i] \notin {"raise", "invalid"}

\* C27 as stated: a stream with a give-up terminal message yields an error
\* and no value, also when another terminal message carried a valid
\* structured output; a stream in which no terminal message carried either
\* yields the error 'No result received'.
C27_GaveUpWinsElseNoResult ==
    LastStageReturned =>
        /\ "gaveup" \in Elems(stream_log) => (LastValue = None /\ error # None)
        /\ Elems(stream_log) \cap {"gaveup", "output"} = {} =>
               (LastValue = None /\ LastErrorIs("No result received"))

\* C27, amended: a stream with a give-up terminal message yields an error
\* and no value, also when another terminal message, before or after it,
\* carried a valid structured output; when the stream ended by itself that
\* error is the give-up error, and when it ended by itself and no terminal
\* message carried either, the error is 'No result received'; a stream that
\* raises, or whose structured output fails validation, yields the error of
\* that exception and no value.
C27_GaveUpWinsElseNoResultIfEnded ==
    LastStageReturned =>
        /\ "gaveup" \in Elems(stream_log) =>
               /\ LastValue = None /\ error # None
               /\ StreamEnded =>
                      LastErrorIs("Could not produce valid output after retries")
        /\ (StreamEnded /\ Elems(stream_log) \cap {"gaveup", "output"} = {}) =>
               (LastValue = None /\ LastErrorIs("No result received"))
        /\ ~StreamEnded =>
               /\ LastValue = None
               /\ \/ LastErrorIs("gateway exception")
                  \/ LastErrorIs("validation error")

\* C27 witness: the stream gave up first and carried a valid structured
\* output afterwards; the outcome is the give-up error
C27_Witness ==
    /\ LastStageReturned
    /\ stream_log = <<"gaveup", "output">>
    /\ LastValue = None
    /\ LastErrorIs("Could not produce valid output after retries")

\* C28: when the content id is not in the store, run_pipeline fails at
\* stage 1 with the error 'Content not found: <id>': run_extract is the only
\* call made, no query is issued, no gate is evaluated and the summarize
\* stage does not run.
C28_ContentNotFound ==
    (content_id \notin StoredIds /\ pc_p # "start") =>
        /\ pc_p = "done"
        /\ pipeline_result =
               Some([success |-> FALSE, error |-> <<"Content not found", content_id>>])
        /\ calls = [n \in DOMAIN calls |-> IF n = "run_extract" THEN 1 ELSE 0]
        /\ step1_result = None /\ step2_result = None
        /\ step3_result = None /\ step4_result = None
        /\ stream_log = <<>>

\* C28 witness: run_pipeline was called with an id that is not in the store
\* and has returned
C28_Witness ==
    /\ content_id \notin StoredIds
    /\ pc_p = "done"
    /\ Get(pipeline_result).error[1] = "Content not found"

\* the value of check name in a checks dict that has it
CheckValue(checks, name) ==
    checks[CHOOSE i \in 1..Len(checks) : checks[i][1] = name][2]

\* C30: checks of validate_summary has good_compression iff original_length
\* > 0, and then its value is true iff 10 * summary_length < 4 *
\* original_length; when original_length <= 0 the verdict is that of
\* has_key_points (at least 3 key points) and has_content (stripped summary
\* longer than 50 characters) alone.
C30_GoodCompressionOnlyForPositiveLength ==
    step4_result # None =>
        LET r == Get(step3_result)
            g == Get(step4_result)
            names == {g.checks[i][1] : i \in 1..Len(g.checks)}
        IN  /\ "good_compression" \in names <=> r.original_length > 0
            /\ r.original_length > 0 =>
                   (CheckValue(g.checks, "good_compression")
                        <=> 10 * r.summary_length < 4 * r.original_length)
            /\ CheckValue(g.checks, "has_key_points") <=> Len(r.key_points) >= 3
            /\ CheckValue(g.checks, "has_content") <=> Len(Strip(r.summary)) > 50
            /\ r.original_length <= 0 =>
                   /\ names = {"has_key_points", "has_content"}
                   /\ g.passed <=>
                          (Len(r.key_points) >= 3 /\ Len(Strip(r.summary)) > 50)

\* C30 witness: a summary of exactly 40 characters for an original of 100
\* failed on good_compression alone
C30_Witness ==
    /\ step4_result # None
    /\ Get(step3_result).summary_length = 40
    /\ Get(step3_result).original_length = 100
    /\ Get(step4_result).reason = <<"Failed checks", "good_compression">>

----------------------------------------------------------------------------
\* Properties of the feedback loop (main of eval_optimize_agent.py).

\* The iteration budget the specification configures (3 in its scenario);
\* main takes no such parameter and its loop tests `eval == "FAIL"` alone.
max_iterations == 3

\* C2: in every reachable state the History (memory, chain_of_thought) holds
\* at most max_iterations records.
C2_HistoryBounded ==
    /\ Len(memory) <= max_iterations
    /\ Len(chain_of_thought) <= max_iterations

\* C3: the loop stops after max_iterations attempts: once max_iterations
\* evaluations have failed, main has returned (status Exhausted) and no
\* further generate call is made.
C3_StopsWhenExhausted ==
    /\ Len(gen_contexts) <= max_iterations
    /\ (Len(memory) = max_iterations /\ eval = "FAIL" /\ pc_l # "evaluate") =>
           pc_l \in {"returned", "raised"}

\* the evaluate calls that returned FAIL so far
FailedEvaluations == Cardinality({i \in 1..Len(eval_log) : eval_log[i].eval = "FAIL"})

\* C14: when an evaluation returns PASS, main returns at once: no generate
\* and no evaluate call follows it (one generate call and one evaluation per
\* attempt, the PASS being the last), and main returns the candidate that was
\* passed together with the whole chain_of_thought.
C14_PassReturnsAtOnce ==
    eval = "PASS" =>
        /\ pc_l = "returned"
        /\ Len(gen_contexts) = Len(memory)
        /\ Len(eval_log) = Len(memory)
        /\ eval_log[Len(eval_log)].eval = "PASS"
        /\ FailedEvaluations = Len(eval_log) - 1
        /\ loop_out = Some([result |-> memory[Len(memory)],
                            chain_of_thought |-> chain_of_thought])
        /\ Len(chain_of_thought) = Len(memory)
        /\ \A i \in 1..Len(memory) : chain_of_thought[i].result = memory[i]

\* C14 witness: the third evaluation passed, after two that failed
C14_Witness ==
    /\ pc_l = "returned" /\ eval = "PASS"
    /\ Len(eval_log) = 3

\* C15: the first generate call gets the empty context; the call after the
\* k-th evaluation gets the header, the values of the k attempts made so far
\* in attempt order, and one feedback line, which is the feedback of the
\* k-th evaluation.
C15_ContextOfNextGeneration ==
    /\ Len(gen_contexts) >= 1 => gen_contexts[1] = <<>>
    /\ \A k \in 1..(Len(gen_contexts) - 1) :
         LET c == gen_contexts[k + 1]
         IN  /\ Len(c) = k + 2
             /\ c[1] = <<"Previous attempts:">>
             /\ \A i \in 1..k : c[i + 1] = <<"- ", memory[i]>>
             /\ c[k + 2] = <<"\nFeedback; ", eval_log[k].feedback>>

\* C15 witness: a third generate call, after two attempts with different
\* values and two evaluations with different feedback
C15_Witness ==
    /\ Len(gen_contexts) = 3
    /\ memory[1] # memory[2]
    /\ eval_log[1].feedback # eval_log[2].feedback

----------------------------------------------------------------------------
\* Properties of the orchestrators (task_breakdown.py, orchestrator_agent.py).

\* the keys of a dict kept as a sequence of <<key, value>>
Keys(d) == [i \in 1..Len(d) |-> d[i][1]]

\* sub is a subsequence of s: its elements appear in s in the same order
InOrder(sub, s) ==
    \E f \in [1..Len(sub) -> 1..Len(s)] :
        /\ \A i \in 1..Len(sub) : s[f[i]] = sub[i]
        /\ \A i, j \in 1..Len(sub) : i < j => f[i] < f[j]

Terminal == {"done", "empty", "raised"}

\* C4: all workers of one run are dispatched concurrently: no worker's start
\* waits for a sibling, so while one worker's query is in flight no sibling
\* of the same plan is still waiting to be started.
C4_WorkersConcurrent ==
    /\ \A i, j \in 1..Len(wstate) :
           wstate[i] = "running" => wstate[j] # "pending"
    /\ \A i, j \in 1..Len(workers) :
           workers[i].state = "running" => workers[j].state # "pending"

C6_FailureIsolated ==
    /\ (pc_t \in {"returned", "raised"} /\ plan # None) =>
           /\ \A i \in 1..Len(wstate) : wstate[i] \in Terminal
           /\ \A i \in 1..Len(wstate) :
                  wstate[i] = "done" =>
                      /\ synth_input # None
                      /\ \E k \in 1..Len(Get(synth_input)) :
                             Get(synth_input)[k][1] = Get(plan).work_streams[i]
    /\ (pc_o \in {"returned", "raised"} /\ workers # <<>>) =>
           /\ \A i \in 1..Len(workers) : workers[i].state \in Terminal
           /\ \A i \in 1..Len(workers) :
                  workers[i].state = "done" => pc_o = "returned"

\* C7: the synthesis input holds one entry per dispatched work item, the
\* failed ones included.
C7_FailedItemsAreGaps ==
    synth_input # None =>
        \A i \in 1..Len(Get(plan).work_streams) :
            \E k \in 1..Len(Get(synth_input)) :
                Get(synth_input)[k][1] = Get(plan).work_streams[i]

\* C8: every terminal failure reaches the caller as a structured outcome
\* with a reason string: no run ends with an exception leaving it, and every
\* failure result carries an error or a reason.
C8_FailuresAreOutcomes ==
    /\ pc_l # "raised" /\ pc_t # "raised" /\ pc_o # "raised"
    /\ (pipeline_result # None /\ ~Get(pipeline_result).success) =>
           (DOMAIN Get(pipeline_result)) \cap {"error", "reason"} # {}
    /\ (pc_t = "returned" /\ ~Get(tb_out).success) =>
           "error" \in DOMAIN Get(tb_out)

\* C9: a work item naming an unregistered work stream is rejected with an
\* UnknownCapability error outcome: once run_worker has been reached for
\* such an item, run_orchestrator has returned that error.
C9_UnknownCapabilityRejected ==
    \A i \in 1..Len(wstate) :
        (wstate[i] # "pending" /\ Get(plan).work_streams[i] \notin WORK_STREAM_TO_WORKER)
        => /\ pc_t = "returned"
           /\ Get(tb_out) = [success |-> FALSE, error |-> "UnknownCapability"]

\* run_orchestrator ended without a plan
TbNoPlan == pc_t \in {"returned", "raised"} /\ plan = None

\* process ended without a plan: no worker was created and nothing with an
\* analysis was returned
OaNoPlan ==
    /\ pc_o \in {"returned", "raised"}
    /\ workers = <<>>
    /\ "analysis" \notin DOMAIN Get(oa_out)

\* C17: when planning yields no plan (the planning query failed or gave no
\* structured result), the orchestrator ends with a planning-failed
\* outcome, no worker is dispatched and the synthesis is not invoked.
C17_NoPlanIsPlanningFailed ==
    /\ TbNoPlan =>
           /\ pc_t = "returned"
           /\ Get(tb_out) = [success |-> FALSE,
                             error |-> "Failed to identify work streams"]
           /\ wstate = <<>> /\ results = <<>> /\ synth_input = None
    /\ OaNoPlan =>
           /\ pc_o = "returned"
           /\ ~Get(oa_out).success

\* C18: when every dispatched worker fails (none yields a result), the
\* orchestrator ends with the all-workers-failed outcome and the synthesis
\* is not invoked.
C18_AllWorkersFailedOutcome ==
    (/\ pc_t \in {"returned", "raised"}
     /\ plan # None
     /\ \A i \in 1..Len(wstate) : wstate[i] # "done")
    => /\ pc_t = "returned"
       /\ Get(tb_out) = [success |-> FALSE, error |-> "No worker results"]
       /\ synth_input = None

\* every work stream of the plan is a registered capability
PlanRegistered ==
    \A i \in 1..Len(Get(plan).work_streams) :
        Get(plan).work_streams[i] \in WORK_STREAM_TO_WORKER

\* C19: for a plan of n work items taken from the registered capabilities,
\* a run that is over has invoked one worker per work item (n invocations,
\* none for anything else), and when all n workers succeeded the synthesis
\* input holds exactly n results; process creates one worker per task and
\* returns one result per task.
C19_OneWorkerPerWorkItem ==
    /\ (pc_t \in {"returned", "raised"} /\ plan # None /\ PlanRegistered) =>
           /\ Len(wstate) = Len(Get(plan).work_streams)
           /\ \A i \in 1..Len(wstate) : wstate[i] # "pending"
           /\ (Len(wstate) > 0 /\ \A i \in 1..Len(wstate) : wstate[i] = "done") =>
                  /\ synth_input # None
                  /\ Len(Get(synth_input)) = Len(wstate)
    /\ pc_o \in {"gather", "returned"} => Len(workers) = Len(tasks)
    /\ pc_o = "returned" => Len(Get(oa_out).worker_results) = Len(tasks)

\* how far run_orchestrator has got
TbRank ==
    CASE pc_t = "start" -> 0
      [] pc_t = "plan" -> 1
      [] pc_t = "worker" -> 2
      [] pc_t = "synth" -> 3
      [] OTHER -> 4

\* how far run_pipeline has got
PipelineRank ==
    CASE pc_p = "start" -> 0
      [] pc_p = "extract" -> 1
      [] pc_p = "summarize" -> 2
      [] OTHER -> 3

\* the calls of run_stage_safe made so far: one by run_extract when the
\* content was found, one by run_summarize
StageRunnerCalls ==
    (IF calls["run_extract"] = 1 /\ ~NotFound(content_id) THEN 1 ELSE 0)
    + calls["run_summarize"]

\* C21: within one run every stage is invoked at most once (extract,
\* summarize; planning, each work item's worker, synthesis), a stage or
\* worker that has ended, failed or not, is never invoked again, and each
\* call of run_stage_safe issues exactly one query.
C21_AtMostOncePerStage ==
    /\ [](/\ calls["run_extract"] <= 1 /\ calls["run_summarize"] <= 1
          /\ calls["query"] = StageRunnerCalls
          /\ \A a, b \in 1..Len(tb_calls) : a # b => tb_calls[a] # tb_calls[b])
    /\ [][/\ PipelineRank' >= PipelineRank
          /\ TbRank' >= TbRank
          /\ \A i \in 1..Len(wstate) :
                 /\ Len(wstate') = Len(wstate)
                 /\ wstate[i] \in Terminal => wstate'[i] = wstate[i]
                 /\ wstate[i] = "running" => wstate'[i] # "pending"
          /\ pc_o' = "plan" => pc_o \in {"start", "plan"}
          /\ \A i \in 1..Len(workers) :
                 /\ Len(workers') = Len(workers)
                 /\ workers[i].state # "running" =>
                        workers'[i].state = workers[i].state]_vars

\* C21 witness: the first worker gave no output, the second one did, and
\* the run went on to the synthesis and returned
C21_Witness ==
    /\ pc_t = "returned"
    /\ wstate = <<"empty", "done">>
    /\ tb_calls = <<<<"identify_work_streams">>, <<"run_worker", 1>>,
                    <<"run_worker", 2>>, <<"synthesize_plan">>>>

\* the extract stage is waiting on a stream that has yielded no
\* ResultMessage so far
ExtractAwaitsTerminal ==
    /\ pc_p = "extract"
    /\ \A i \in 1..Len(stream_log) : stream_log[i] = "other"

\* C22: every stage runner invocation returns after a bounded wait: while
\* the Model Gateway produces no terminal message the invocation does not
\* wait forever, it ends (with an error that fails the run).
C22_StageRunnerReturns ==
    ExtractAwaitsTerminal ~> ~ExtractAwaitsTerminal

----------------------------------------------------------------------------
\* Properties of the hook of hello_world.py.

\* the path lies inside a directory named custom_scripts: custom_scripts is
\* a whole path component, followed by a separator and something more
InsideCustomScripts(path) ==
    \E i \in 1..Len(path) :
        /\ path[i] = "custom_scripts"
        /\ i = 1 \/ path[i - 1] = "/"
        /\ i + 1 < Len(path)
        /\ path[i + 1] = "/"

\* the permission decision of a returned dict, "" when it carries none
Decision(d) == IF d = <<>> THEN "" ELSE d[1][2][2][2]

\* C25: for a Write or Edit call, validate_script_writes returns a deny
\* decision when file_path ends in .py, .ts or .js and does not lie inside
\* a custom_scripts directory, and returns no decision for a script path
\* inside custom_scripts and for a path that is no script.
C25_ScriptsOutsideAreDenied ==
    (pc_h = "done" /\ Matches(tool_name)) =>
        IF EndsWithScript(file_path) /\ ~InsideCustomScripts(file_path)
        THEN Decision(Get(hook_out)) = "deny"
        ELSE Get(hook_out) = <<>>

----------------------------------------------------------------------------
\* Properties of the resume evaluation.

\* C26: the reported score is the sum of the four components of the
\* breakdown, each component lies in 0..25, hence 0 <= score <= max_score =
\* 100, and passing is true exactly when score >= 75.
C26_ScoreIsSumOfBreakdown ==
    pc_r = "done" =>
        LET e == Get(report)
            b == e.breakdown
        IN  /\ e.score = b.completeness + b.conciseness + b.specificity + b.formatting
            /\ b.completeness \in 0..25 /\ b.conciseness \in 0..25
            /\ b.specificity \in 0..25 /\ b.formatting \in 0..25
            /\ 0 <= e.score /\ e.score <= e.max_score /\ e.max_score = 100
            /\ e.passing <=> e.score >= 75

\* C26 witness: a resume evaluated at exactly 75, which passes, with four
\* long bullets taking the 15 points that can be lost on them
C26_Witness ==
    /\ pc_r = "done"
    /\ Get(report).score = 75 /\ Get(report).passing
    /\ Cardinality(LongBullets(resume)) = 4

====
